---------------------------- MODULE Spec2Model ----------------------------
(***************************************************************************)
(* A model of go-dbus-codegen: the merge of interface lists and the flag   *)
(* filter of cmd/dbus-codegen-go, printer.Print with its name derivation,  *)
(* ordering and validation steps, and the LookupSignal dispatcher that the *)
(* printer's template emits.                                               *)
(*                                                                         *)
(* A Go string is a sequence of one-character strings, so that the         *)
(* conversions (strings.Title, the regular expressions, the byte-wise      *)
(* comparison used by the sorts) are computed character by character.      *)
(***************************************************************************)
EXTENDS Integers, Sequences, FiniteSets

VARIABLES
    heap,       \* the *token.Interface objects, by pointer
    ifaces,     \* run(): var ifaces []*token.Interface (pointers)
    sources,    \* history: the documents merged so far, in order
    filtered,   \* run(): the slice handed to Print (pointers)
    phase,      \* position in run(): "collect", "filtered", "done"
    call,       \* the arguments of the Print call: slice before, options, writer
    out,        \* what the io.Writer has received
    ret,        \* what run()/Print returned
    rendered,   \* history: the text the template produced in that call
    arg,        \* argName: the call's inputs and its result
    sig,        \* LookupSignal: declared signal, log, last payload and result
    typ         \* ifaceType: the call's inputs and its result

vars == <<heap, ifaces, sources, filtered, phase, call, out, ret, rendered, arg, sig, typ>>

---------------------------------------------------------------------------
(* Bytes and strings.                                                      *)

Digits == <<"0", "1", "2", "3", "4", "5", "6", "7", "8", "9">>

Upper == <<"A", "B", "C", "D", "E", "F", "G", "H", "I", "J", "K", "L", "M",
           "N", "O", "P", "Q", "R", "S", "T", "U", "V", "W", "X", "Y", "Z">>

Lower == <<"a", "b", "c", "d", "e", "f", "g", "h", "i", "j", "k", "l", "m",
           "n", "o", "p", "q", "r", "s", "t", "u", "v", "w", "x", "y", "z">>

\* The bytes the model uses, in ASCII order.
Ascii == <<" ", "-", ".">> \o Digits \o Upper \o <<"_">> \o Lower

Range(s) == {s[i] : i \in DOMAIN s}

\* The place of each byte in the byte order.
OrdOf == [c \in Range(Ascii) |-> CHOOSE i \in DOMAIN Ascii : Ascii[i] = c]

Ord(c) == OrdOf[c]

DigitSet == Range(Digits)

LetterSet == Range(Upper) \cup Range(Lower)

IsDigit(c) == c \in DigitSet

IsLetter(c) == c \in LetterSet

IsAlnum(c) == IsLetter(c) \/ IsDigit(c)

UpperOf == [c \in Range(Lower) |-> Upper[CHOOSE i \in DOMAIN Lower : Lower[i] = c]]

LowerOf == [c \in Range(Upper) |-> Lower[CHOOSE i \in DOMAIN Upper : Upper[i] = c]]

ToUpperC(c) == IF c \in DOMAIN UpperOf THEN UpperOf[c] ELSE c

ToLowerC(c) == IF c \in DOMAIN LowerOf THEN LowerOf[c] ELSE c

Min(a, b) == IF a < b THEN a ELSE b

\* Go's s[from:] with 0-based from; the caller guarantees 0 <= from <= len(s).
SliceFrom(s, from) == SubSeq(s, from + 1, Len(s))

\* Go's a < b on strings: byte-wise lexicographic.
LessStr(a, b) ==
    \E k \in 1..(Min(Len(a), Len(b)) + 1) :
        /\ \A j \in 1..(k - 1) : a[j] = b[j]
        /\ \/ k > Len(a) /\ k <= Len(b)
           \/ k <= Len(a) /\ k <= Len(b) /\ Ord(a[k]) < Ord(b[k])

\* strings.Index(s, sub): 0-based index of the first occurrence, or -1.
Index(s, sub) ==
    LET hits == {i \in 0..(Len(s) - Len(sub)) : SubSeq(s, i + 1, i + Len(sub)) = sub}
    IN  IF hits = {} THEN -1 ELSE CHOOSE i \in hits : \A j \in hits : i <= j

\* strings.Title's isSeparator: ASCII letters, digits and underscore are not.
isSeparator(c) == ~(IsAlnum(c) \/ c = "_")

\* strings.Title: upper-cases the first letter of every word.
Title(s) ==
    [i \in DOMAIN s |->
        IF isSeparator(IF i = 1 THEN " " ELSE s[i - 1]) THEN ToUpperC(s[i]) ELSE s[i]]

\* strings.ToLower
ToLower(s) == [i \in DOMAIN s |-> ToLowerC(s[i])]

\* strconv.Itoa for i >= 0
RECURSIVE Itoa(_)
Itoa(i) == IF i < 10 THEN <<Digits[i + 1]>> ELSE Itoa(i \div 10) \o <<Digits[(i % 10) + 1]>>

\* The Go keywords (go/token's keyword table, listed in arg.go).
keywords == {
    <<"b","r","e","a","k">>, <<"d","e","f","a","u","l","t">>, <<"f","u","n","c">>,
    <<"i","n","t","e","r","f","a","c","e">>, <<"s","e","l","e","c","t">>,
    <<"c","a","s","e">>, <<"d","e","f","e","r">>, <<"g","o">>, <<"m","a","p">>,
    <<"s","t","r","u","c","t">>, <<"c","h","a","n">>, <<"e","l","s","e">>,
    <<"g","o","t","o">>, <<"p","a","c","k","a","g","e">>, <<"s","w","i","t","c","h">>,
    <<"c","o","n","s","t">>, <<"f","a","l","l","t","h","r","o","u","g","h">>,
    <<"i","f">>, <<"r","a","n","g","e">>, <<"t","y","p","e">>,
    <<"c","o","n","t","i","n","u","e">>, <<"f","o","r">>, <<"i","m","p","o","r","t">>,
    <<"r","e","t","u","r","n">>, <<"v","a","r">> }

isKeyword(s) == s \in keywords

\* identRegexp = ^[a-zA-Z][a-zA-Z0-9_]*$
identRegexpMatch(s) ==
    /\ Len(s) >= 1
    /\ IsLetter(s[1])
    /\ \A i \in 2..Len(s) : IsAlnum(s[i]) \/ s[i] = "_"

\* varRegexp = _+[a-zA-Z0-9], ReplaceAllStringFunc with
\* strings.Title(strings.TrimLeft(s, "_")): leftmost, greedy, non-overlapping.
RECURSIVE varReplace(_)
varReplace(s) ==
    IF s = <<>> THEN <<>>
    ELSE IF s[1] # "_" THEN <<s[1]>> \o varReplace(Tail(s))
    ELSE LET stops == {j \in 1..Len(s) : s[j] # "_"}
             run   == IF stops = {} THEN Len(s)
                      ELSE (CHOOSE j \in stops : \A k \in stops : j <= k) - 1
         IN  IF run < Len(s) /\ IsAlnum(s[run + 1])
             THEN Title(<<s[run + 1]>>) \o varReplace(SubSeq(s, run + 2, Len(s)))
             ELSE SubSeq(s, 1, run) \o varReplace(SubSeq(s, run + 1, Len(s)))

\* ifaceRegexp = [._][a-zA-Z0-9], ReplaceAllStringFunc with "_" + ToUpper(s[1:]).
RECURSIVE ifaceReplace(_)
ifaceReplace(s) ==
    IF s = <<>> THEN <<>>
    ELSE IF s[1] \in {".", "_"} /\ Len(s) >= 2 /\ IsAlnum(s[2])
         THEN <<"_", ToUpperC(s[2])>> \o ifaceReplace(SubSeq(s, 3, Len(s)))
         ELSE <<s[1]>> \o ifaceReplace(Tail(s))

---------------------------------------------------------------------------
(* printer: the derived names.                                             *)

\* The prefix loop of ifaceType. A Go index or slice out of range panics.
RECURSIVE stripPrefix(_, _)
stripPrefix(name, prefixes) ==
    IF prefixes = <<>> THEN [panic |-> FALSE, name |-> name]
    ELSE LET raw == Head(prefixes) IN
         IF raw = <<>> THEN [panic |-> TRUE, name |-> name]
         ELSE LET prefix == IF raw[Len(raw)] = "." THEN SubSeq(raw, 1, Len(raw) - 1) ELSE raw
                  i      == Index(name, prefix)
              IN  IF i = -1 THEN stripPrefix(name, Tail(prefixes))
                  ELSE IF i + Len(prefix) + 1 > Len(name)
                       THEN [panic |-> TRUE, name |-> name]
                       ELSE [panic |-> FALSE, name |-> SliceFrom(name, i + Len(prefix) + 1)]

ifaceTypePanics(iface, prefixes) == stripPrefix(iface.Name, prefixes).panic

ifaceType(iface, prefixes) ==
    LET name == Title(stripPrefix(iface.Name, prefixes).name)
    IN  IF isKeyword(name) THEN name ELSE ifaceReplace(name)

ifaceNewType(iface, prefixes) == <<"N", "e", "w">> \o ifaceType(iface, prefixes)

ifaceNameConst(iface, prefixes) ==
    <<"I", "n", "t", "e", "r", "f", "a", "c", "e">> \o ifaceType(iface, prefixes)

methodType(method) == Title(method.Name)

propType(prop) == Title(prop.Name)

propGetType(prop) == <<"G", "e", "t">> \o propType(prop)

propSetType(prop) == <<"S", "e", "t">> \o propType(prop)

propNeedsAccessor(iface, name) ==
    \A k \in DOMAIN iface.Methods : iface.Methods[k].Name # name

propNeedsSet(iface, prop) ==
    IF ~prop.Write THEN FALSE ELSE propNeedsAccessor(iface, propSetType(prop))

propNeedsGet(iface, prop) ==
    IF ~prop.Read THEN FALSE ELSE propNeedsAccessor(iface, propGetType(prop))

signalType(iface, signal, prefixes) ==
    ifaceType(iface, prefixes) \o <<"_">> \o Title(signal.Name)
        \o <<"S", "i", "g", "n", "a", "l">>

signalBodyType(iface, signal, prefixes) ==
    signalType(iface, signal, prefixes) \o <<"B", "o", "d", "y">>

\* i is the template's 0-based position of the argument.
argName(a, prefix, i, export) ==
    LET n1 == IF a.Name = <<>>
              THEN prefix \o Itoa(i)
              ELSE ToLower(SubSeq(a.Name, 1, 1)) \o varReplace(SliceFrom(a.Name, 1))
        n2 == IF export THEN Title(n1) ELSE n1
    IN  IF isKeyword(n2) THEN prefix \o Title(n2) ELSE n2

propArgName(prop) == argName(prop.Arg, <<"v">>, 0, FALSE)

---------------------------------------------------------------------------
(* printer: the template. The text is a sequence of lines; a line keeps    *)
(* the tokens the template puts in identifier position (ids) apart from    *)
(* what it puts in comments, string literals and type positions (text).    *)

L(kind, ids, text) == [kind |-> kind, ids |-> ids, text |-> text, fmt |-> FALSE]

RECURSIVE Flat(_)
Flat(ss) == IF ss = <<>> THEN <<>> ELSE Head(ss) \o Flat(Tail(ss))

\* {{ template "annotations" . }}
annotations(x) ==
    [k \in DOMAIN x.Annotations |->
        L("// @", <<>>, <<x.Annotations[k].Name, x.Annotations[k].Value>>)]

\* joinArgs, joinArgNames, joinStoreArgs: the names, by 0-based position.
joinArgNames(args, prefix, export) ==
    [k \in DOMAIN args |-> argName(args[k], prefix, k - 1, export)]

argTypes(args) == [k \in DOMAIN args |-> args[k].Type]

headerLines(ifs) ==
    LET members(title, ms) ==
            IF ms = <<>> THEN <<>>
            ELSE <<L(title, <<>>, <<>>)>>
                 \o [k \in DOMAIN ms |-> L("//     member", <<>>, <<ms[k].Name>>)]
    IN  Flat([n \in DOMAIN ifs |->
            <<L("// interface", <<>>, <<ifs[n].Name>>)>>
            \o members("//   Methods", ifs[n].Methods)
            \o members("//   Properties", ifs[n].Properties)
            \o members("//   Signals", ifs[n].Signals)
            \o <<L("//", <<>>, <<>>)>>])

lookupInterfaceLines(ifs, prefixes) ==
    <<L("func LookupInterface", <<>>, <<>>)>>
    \o [n \in DOMAIN ifs |->
            L("case interface",
              <<ifaceNameConst(ifs[n], prefixes), ifaceNewType(ifs[n], prefixes)>>, <<>>)]
    \o <<L("default: return nil", <<>>, <<>>)>>

lookupSignalCase(iface, signal, pkgName, prefixes) ==
    <<L("case signal", <<ifaceNameConst(iface, prefixes)>>, <<signal.Name>>)>>
    \o [k \in DOMAIN signal.Args |->
            L("v, ok := signal.Body[i].(T)", <<<<"v">> \o Itoa(k - 1)>>,
              <<Itoa(k - 1), signal.Args[k].Type, pkgName,
                argName(signal.Args[k], <<"v">>, k - 1, TRUE)>>)]
    \o <<L("return &signal",
           <<signalType(iface, signal, prefixes), signalBodyType(iface, signal, prefixes)>>
           \o joinArgNames(signal.Args, <<"v">>, TRUE), <<>>)>>

lookupSignalLines(ifs, pkgName, prefixes) ==
    <<L("func LookupSignal", <<>>, <<>>)>>
    \o Flat([n \in DOMAIN ifs |->
            Flat([k \in DOMAIN ifs[n].Signals |->
                lookupSignalCase(ifs[n], ifs[n].Signals[k], pkgName, prefixes)])])
    \o <<L("default: return nil", <<>>, <<>>)>>

constLines(ifs, prefixes) ==
    <<L("const (", <<>>, <<>>)>>
    \o [n \in DOMAIN ifs |->
            L("const interface", <<ifaceNameConst(ifs[n], prefixes)>>, <<ifs[n].Name>>)]

methodLines(iface, method, prefixes) ==
    <<L("// method", <<>>, <<methodType(method), iface.Name, method.Name>>)>>
    \o annotations(method)
    \o <<L("method",
           <<ifaceType(iface, prefixes), methodType(method)>>
           \o joinArgNames(method.In, <<"i", "n">>, FALSE)
           \o joinArgNames(method.Out, <<"o", "u", "t">>, FALSE)
           \o <<ifaceNameConst(iface, prefixes)>>
           \o joinArgNames(method.In, <<"i", "n">>, FALSE)
           \o joinArgNames(method.Out, <<"o", "u", "t">>, FALSE),
           <<method.Name>> \o argTypes(method.In) \o argTypes(method.Out))>>

propLines(iface, prop, prefixes) ==
    (IF propNeedsGet(iface, prop)
     THEN <<L("// getter", <<>>, <<propGetType(prop), iface.Name, prop.Name>>)>>
          \o annotations(prop)
          \o <<L("getter",
                 <<ifaceType(iface, prefixes), propGetType(prop), propArgName(prop),
                   ifaceNameConst(iface, prefixes), propArgName(prop)>>,
                 <<prop.Arg.Type, prop.Name>>)>>
     ELSE <<>>)
    \o
    (IF propNeedsSet(iface, prop)
     THEN <<L("// setter", <<>>, <<propSetType(prop), iface.Name, prop.Name>>)>>
          \o annotations(prop)
          \o <<L("setter",
                 <<ifaceType(iface, prefixes), propSetType(prop), propArgName(prop),
                   ifaceNameConst(iface, prefixes), propArgName(prop)>>,
                 <<prop.Arg.Type, prop.Name>>)>>
     ELSE <<>>)

signalLines(iface, signal, prefixes) ==
    <<L("// signal", <<>>,
        <<signalType(iface, signal, prefixes), iface.Name, signal.Name>>)>>
    \o annotations(signal)
    \o <<L("signal type",
           <<signalType(iface, signal, prefixes), signalBodyType(iface, signal, prefixes),
             ifaceNameConst(iface, prefixes)>>,
           <<signal.Name>>),
         L("signal body",
           <<signalBodyType(iface, signal, prefixes)>>
           \o joinArgNames(signal.Args, <<"v">>, TRUE),
           argTypes(signal.Args))>>

ifaceLines(iface, prefixes) ==
    <<L("func New", <<ifaceNewType(iface, prefixes), ifaceType(iface, prefixes)>>,
        <<iface.Name>>),
      L("// implements", <<>>, <<ifaceType(iface, prefixes), iface.Name>>)>>
    \o annotations(iface)
    \o <<L("type struct", <<ifaceType(iface, prefixes)>>, <<>>),
         L("func iface()",
           <<ifaceType(iface, prefixes), ifaceNameConst(iface, prefixes)>>, <<>>)>>
    \o Flat([k \in DOMAIN iface.Methods |-> methodLines(iface, iface.Methods[k], prefixes)])
    \o Flat([k \in DOMAIN iface.Properties |->
                propLines(iface, iface.Properties[k], prefixes)])
    \o Flat([k \in DOMAIN iface.Signals |-> signalLines(iface, iface.Signals[k], prefixes)])

\* tmpl.Execute over srcTemplate, when no template function panics.
srcTemplate(ifs, pkgName, prefixes) ==
    <<L("// Code generated", <<>>, <<>>)>>
    \o headerLines(ifs)
    \o <<L("package", <<pkgName>>, <<>>),
         L("import, const, type Interface", <<>>, <<>>)>>
    \o lookupInterfaceLines(ifs, prefixes)
    \o <<L("type Signal", <<>>, <<>>)>>
    \o lookupSignalLines(ifs, pkgName, prefixes)
    \o <<L("func AddMatchRule", <<>>, <<>>)>>
    \o constLines(ifs, prefixes)
    \o Flat([n \in DOMAIN ifs |-> ifaceLines(ifs[n], prefixes)])

\* A template function that panics makes tmpl.Execute return an error.
templateFails(ifs, prefixes) ==
    \E n \in DOMAIN ifs : ifaceTypePanics(ifs[n], prefixes)

\* An identifier of Go, restricted to the bytes of the model:
\* a letter or underscore, then letters, digits, underscores; not a keyword.
IsGoIdent(s) ==
    /\ Len(s) >= 1
    /\ IsLetter(s[1]) \/ s[1] = "_"
    /\ \A i \in 2..Len(s) : IsAlnum(s[i]) \/ s[i] = "_"
    /\ ~isKeyword(s)

\* goparser.ParseFile accepts the text iff every token the template puts in
\* identifier position is an identifier (redeclarations are not reported).
parseFile(text) ==
    \A n \in DOMAIN text : \A k \in DOMAIN text[n].ids : IsGoIdent(text[n].ids[k])

\* goformat.Node prints the parsed file in canonical form.
formatNode(text) == [n \in DOMAIN text |-> [text[n] EXCEPT !.fmt = TRUE]]

---------------------------------------------------------------------------
(* printer.Print                                                            *)

\* Every order of the elements of s.
RECURSIVE Perms(_)
Perms(s) ==
    IF s = <<>> THEN {<<>>}
    ELSE UNION {{<<s[i]>> \o p : p \in Perms(SubSeq(s, 1, i - 1) \o SubSeq(s, i + 1, Len(s)))} :
                    i \in DOMAIN s}

\* sort.Slice(s, less) with less comparing names, name[x] the name of element
\* x: s reordered so that no element is less than an earlier one. The sort is
\* not stable: elements that compare equal end in any order.
sortSlice(s, name) ==
    {p \in Perms(s) : \A i, j \in 1..Len(p) : i < j => ~LessStr(name[p[j]], name[p[i]])}

\* The name the less functions of the member sorts read.
memberName(ms) == [x \in Range(ms) |-> x.Name]

\* The member sorts with the sort of the methods left out.
sortMembersNotMethods(iface) ==
    {[iface EXCEPT !.Properties = q, !.Signals = g] :
        q \in sortSlice(iface.Properties, memberName(iface.Properties)),
        g \in sortSlice(iface.Signals, memberName(iface.Signals))}

\* The three member sorts of prepareIfaces on one interface.
sortMembers(iface) ==
    {[iface EXCEPT !.Methods = m, !.Properties = q, !.Signals = g] :
        m \in sortSlice(iface.Methods, memberName(iface.Methods)),
        q \in sortSlice(iface.Properties, memberName(iface.Properties)),
        g \in sortSlice(iface.Signals, memberName(iface.Signals))}

\* The loop of prepareIfaces over the interfaces: the heaps it can leave.
RECURSIVE sortAllMembers(_, _)
sortAllMembers(ptrs, h) ==
    IF ptrs = <<>> THEN {h}
    ELSE {[h2 EXCEPT ![Head(ptrs)] = x] :
            x \in sortMembers(h[Head(ptrs)]), h2 \in sortAllMembers(Tail(ptrs), h)}

\* prepareIfaces sorting the slice only, not the members of its interfaces.
prepareIfacesSliceOnly(ptrs, h) ==
    {[ptrs |-> p, heap |-> h] : p \in sortSlice(ptrs, [q \in Range(ptrs) |-> h[q].Name])}

\* prepareIfaces sorts the slice it is given and, through the pointers, the
\* member slices of every interface in it: the outcomes it can leave.
prepareIfaces(ptrs, h) ==
    {[ptrs |-> p, heap |-> h2] :
        p \in sortSlice(ptrs, [q \in Range(ptrs) |-> h[q].Name]),
        h2 \in sortAllMembers(ptrs, h)}

Deref(ptrs, h) == [n \in DOMAIN ptrs |-> h[ptrs[n]]]

\* The checks without the one for an empty slice.
checkArgsPackageOnly(pkgName, ptrs) ==
    IF ~identRegexpMatch(pkgName) THEN "package name is not valid" ELSE "nil"

\* The two checks Print makes before any work.
checkArgs(pkgName, ptrs) ==
    IF ~identRegexpMatch(pkgName) THEN "package name is not valid"
    ELSE IF Len(ptrs) = 0 THEN "no interfaces given"
    ELSE "nil"

\* out.Write / the write inside goformat.Node: a writer that fails has taken
\* only the first writer.short lines.
write(writer, data) ==
    IF writer.ok THEN [ret |-> "nil", out |-> data]
    ELSE [ret |-> "write error", out |-> SubSeq(data, 1, Min(writer.short, Len(data)))]

\* Print writing the buffer before it parses it.
emitWriteBeforeParse(text, gofmt, writer) ==
    IF ~parseFile(text) THEN [ret |-> "parse error", out |-> write(writer, text).out]
    ELSE IF gofmt THEN write(writer, formatNode(text))
    ELSE write(writer, text)

\* Print from goparser.ParseFile on.
emit(text, gofmt, writer) ==
    IF ~parseFile(text) THEN [ret |-> "parse error", out |-> <<>>]
    ELSE IF gofmt THEN write(writer, formatNode(text))
    ELSE write(writer, text)

\* Print after prepareIfaces left pr.
execute(pr, o) ==
    LET ifs == Deref(pr.ptrs, pr.heap) IN
    IF templateFails(ifs, o.prefixes)
    THEN [ret |-> "template error", out |-> <<>>, rendered |-> <<>>,
          ptrs |-> pr.ptrs, heap |-> pr.heap]
    ELSE LET text == srcTemplate(ifs, o.pkgName, o.prefixes)
             w    == emit(text, o.gofmt, o.writer)
         IN  [ret |-> w.ret, out |-> w.out, rendered |-> text,
              ptrs |-> pr.ptrs, heap |-> pr.heap]

\* printer.Print(out, ptrs, opts...) on heap h, every outcome: what it returns,
\* what the writer received, the state it leaves the caller's slice and heap in.
printerPrint(ptrs, h, o) ==
    LET e == checkArgs(o.pkgName, ptrs) IN
    IF e # "nil"
    THEN {[ret |-> e, out |-> <<>>, rendered |-> <<>>, ptrs |-> ptrs, heap |-> h]}
    ELSE {execute(pr, o) : pr \in prepareIfaces(ptrs, h)}

---------------------------------------------------------------------------
(* cmd/dbus-codegen-go: merge, the flag filter, run.                       *)

\* merge with found computed against the list as it was on entry only.
mergeFoundOnEntry(h, curr, next) ==
    LET fresh(ifn) == \A k \in DOMAIN curr : h[curr[k]].Name # h[ifn].Name
    IN  curr \o SelectSeq(next, fresh)

RECURSIVE merge(_, _, _)
merge(h, curr, next) ==
    IF next = <<>> THEN curr
    ELSE LET ifn   == Head(next)
             found == \E k \in DOMAIN curr : h[curr[k]].Name = h[ifn].Name
         IN  merge(h, IF found THEN curr ELSE Append(curr, ifn), Tail(next))

includes(ss, s) == \E i \in DOMAIN ss : ss[i] = s

\* The loop of run() that builds filtered.
RECURSIVE filter(_, _, _, _)
filter(h, ptrs, only, except) ==
    IF ptrs = <<>> THEN <<>>
    ELSE LET name == h[Head(ptrs)].Name
             keep == \/ Len(only) = 0 /\ Len(except) = 0
                     \/ Len(only) # 0 /\ includes(only, name)
                     \/ Len(except) # 0 /\ ~includes(except, name)
         IN  (IF keep THEN <<Head(ptrs)>> ELSE <<>>) \o filter(h, Tail(ptrs), only, except)

---------------------------------------------------------------------------
(* The inputs: what the parser returns for the documents the tool is       *)
(* given, and the flags.                                                   *)

TString == <<"s", "t", "r", "i", "n", "g">>

TInt32 == <<"i", "n", "t", "3", "2">>

NoAnnotations == <<>>

Deprecated ==
    <<[Name |-> <<"d", "e", "p", "r", "e", "c", "a", "t", "e", "d">>,
       Value |-> <<"t", "r", "u", "e">>]>>

\* The interface objects the parser allocates, by pointer.
Objects == <<
    \* 1: n.b, members out of order; method getX and property x
    [Name |-> <<"n", ".", "b">>, Annotations |-> Deprecated,
     Methods |-> <<
        [Name |-> <<"z">>, In |-> <<>>, Out |-> <<>>, Annotations |-> NoAnnotations],
        [Name |-> <<"g", "e", "t", "X">>,
         In |-> <<[Name |-> <<>>, Type |-> TString]>>,
         Out |-> <<[Name |-> <<"a", "_", "b">>, Type |-> TInt32]>>,
         Annotations |-> NoAnnotations]>>,
     Properties |-> <<
        [Name |-> <<"x">>, Read |-> TRUE, Write |-> TRUE,
         Arg |-> [Name |-> <<>>, Type |-> TString], Annotations |-> NoAnnotations]>>,
     Signals |-> <<
        [Name |-> <<"s">>,
         Args |-> <<[Name |-> <<>>, Type |-> TString],
                    [Name |-> <<"g", "o">>, Type |-> TInt32]>>,
         Annotations |-> NoAnnotations]>>],
    \* 2: n.a, method GetY and read-only property y
    [Name |-> <<"n", ".", "a">>, Annotations |-> NoAnnotations,
     Methods |-> <<
        [Name |-> <<"G", "e", "t", "Y">>, In |-> <<>>,
         Out |-> <<[Name |-> <<>>, Type |-> TString]>>, Annotations |-> NoAnnotations]>>,
     Properties |-> <<
        [Name |-> <<"y">>, Read |-> TRUE, Write |-> FALSE,
         Arg |-> [Name |-> <<"y">>, Type |-> TString], Annotations |-> Deprecated]>>,
     Signals |-> <<>>],
    \* 3: n.b again, from another document, with no members
    [Name |-> <<"n", ".", "b">>, Annotations |-> NoAnnotations,
     Methods |-> <<>>, Properties |-> <<>>, Signals |-> <<>>],
    \* 4: n, which the prefix n matches up to its end
    [Name |-> <<"n">>, Annotations |-> NoAnnotations,
     Methods |-> <<>>, Properties |-> <<>>, Signals |-> <<>>],
    \* 5 and 6: one document declaring n.c twice
    [Name |-> <<"n", ".", "c">>, Annotations |-> NoAnnotations,
     Methods |-> <<>>, Properties |-> <<>>,
     Signals |-> <<
        [Name |-> <<"t">>, Args |-> <<>>, Annotations |-> NoAnnotations],
        [Name |-> <<"s">>, Args |-> <<[Name |-> <<"a">>, Type |-> TInt32]>>,
         Annotations |-> NoAnnotations]>>],
    [Name |-> <<"n", ".", "c">>, Annotations |-> NoAnnotations,
     Methods |-> <<
        [Name |-> <<"m">>, In |-> <<>>, Out |-> <<>>, Annotations |-> NoAnnotations]>>,
     Properties |-> <<>>, Signals |-> <<>>] >>

\* The documents: what parser.Parse or parser.ParseNode returns for each.
Docs == << <<1, 2>>, <<3, 4>>, <<5, 6>> >>

\* -package
PkgNames == {
    <<"d", "b", "u", "s", "g", "e", "n">>,
    <<"g", "o">>,
    <<"a", " ", "b">>,
    <<"_", "p">> }

\* -prefix
PrefixChoices == { <<>>, << <<"n">> >> }

\* -only, -except
FlagChoices == { <<>>, << <<"n", ".", "b">> >> }

\* The writers: one that takes everything, and two that fail, after no line
\* and after the first.
Writers == {[ok |-> TRUE, short |-> 0], [ok |-> FALSE, short |-> 0], [ok |-> FALSE, short |-> 1]}

\* How many documents one run merges.
MaxSources == 2

NoCall ==
    [ptrs |-> <<>>, heap |-> Objects, pkgName |-> <<>>, gofmt |-> TRUE,
     prefixes |-> <<>>, writer |-> [ok |-> TRUE, short |-> 0]]

NoArg == [name |-> <<>>, prefix |-> <<>>, i |-> 0, export |-> FALSE, result |-> <<>>, done |-> FALSE]

NoTyp == [name |-> <<>>, prefixes |-> <<>>, result |-> <<>>, done |-> FALSE, crashed |-> FALSE]

NoSig ==
    [name |-> <<>>, body |-> <<>>, result |-> "none", fields |-> <<>>,
     anomalies |-> <<>>, log |-> <<>>, crashed |-> FALSE]

---------------------------------------------------------------------------
(* run(): collect the interfaces, filter them, print them.                 *)

Init ==
    /\ heap = Objects
    /\ ifaces = <<>>
    /\ sources = <<>>
    /\ filtered = <<>>
    /\ phase = "collect"
    /\ call = NoCall
    /\ out = <<>>
    /\ ret = "pending"
    /\ rendered = <<>>
    /\ arg = NoArg
    /\ sig = NoSig
    /\ typ = NoTyp

\* ifaces = merge(ifaces, chunk), for a file or an introspected node.
Merge(d) ==
    /\ phase = "collect"
    /\ Len(sources) < MaxSources
    /\ ifaces' = merge(heap, ifaces, Docs[d])
    /\ sources' = Append(sources, d)
    /\ UNCHANGED <<heap, filtered, phase, call, out, ret, rendered, arg, sig, typ>>

\* ifaces, err = parser.Parse(b) on standard input: no merge.
ParseStdin(d) ==
    /\ phase = "collect"
    /\ sources = <<>>
    /\ ifaces' = Docs[d]
    /\ phase' = "parsed"
    /\ UNCHANGED <<heap, sources, filtered, call, out, ret, rendered, arg, sig, typ>>

\* The flag check and the filter loop of run().
Filter(only, except) ==
    /\ phase \in {"collect", "parsed"}
    /\ IF Len(only) # 0 /\ Len(except) # 0
       THEN /\ ret' = "cannot combine -only and -except flags"
            /\ phase' = "done"
            /\ UNCHANGED filtered
       ELSE /\ filtered' = filter(heap, ifaces, only, except)
            /\ phase' = "filtered"
            /\ UNCHANGED ret
    /\ UNCHANGED <<heap, ifaces, sources, call, out, rendered, arg, sig, typ>>

\* return printer.Print(os.Stdout, filtered, ...)
RunPrint(pkgName, gofmt, prefixes, writer) ==
    /\ phase = "filtered"
    /\ LET o == [ptrs |-> filtered, heap |-> heap, pkgName |-> pkgName, gofmt |-> gofmt,
                 prefixes |-> prefixes, writer |-> writer]
       IN  /\ call' = o
           /\ \E r \in printerPrint(filtered, heap, o) :
                /\ ret' = r.ret
                /\ out' = r.out
                /\ rendered' = r.rendered
                /\ filtered' = r.ptrs
                /\ heap' = r.heap
    /\ phase' = "done"
    /\ UNCHANGED <<ifaces, sources, arg, sig, typ>>

Next ==
    \/ \E d \in DOMAIN Docs : Merge(d)
    \/ \E d \in DOMAIN Docs : ParseStdin(d)
    \/ \E only \in FlagChoices, except \in FlagChoices : Filter(only, except)
    \/ \E pkgName \in PkgNames, gofmt \in BOOLEAN, prefixes \in PrefixChoices, writer \in Writers :
            RunPrint(pkgName, gofmt, prefixes, writer)

Spec == Init /\ [][Next]_vars

---------------------------------------------------------------------------
(* Properties of merge and of Print.                                       *)

\* A call of Print was made and has returned.
Printed == phase = "done" /\ ret # "cannot combine -only and -except flags"

\* Every interface the merged documents hold, in the order merge met them.
Merged == Flat([k \in DOMAIN sources |-> Docs[sources[k]]])

NoTwoShareAName(ptrs, h) ==
    \A i, j \in DOMAIN ptrs : i # j => h[ptrs[i]].Name # h[ptrs[j]].Name

\* The entries of all whose name no earlier entry of all has, in order.
FirstSeen(all, h) ==
    LET kept == {i \in DOMAIN all : \A j \in 1..(i - 1) : h[all[j]].Name # h[all[i]].Name}
    IN  [k \in 1..Cardinality(kept) |->
            all[CHOOSE i \in kept : Cardinality({j \in kept : j <= i}) = k]]

\* C1: after any sequence of merge calls from the empty list, the list holds no
\* two interfaces of one name, and holds for each name the interface of the
\* earliest document (and the earliest place in it) that has the name, in the
\* order of first appearance: first seen wins, later ones are discarded whole.
C1_MergeFirstSeenWins ==
    sources # <<>> =>
        /\ NoTwoShareAName(ifaces, heap)
        /\ ifaces = FirstSeen(Merged, heap)

\* C1 witness: two documents were merged, the second brought an interface whose
\* name the list already had (discarded) and one it had not (appended).
C1_Witness ==
    /\ Len(sources) = 2
    /\ Len(ifaces) > Len(Docs[sources[1]])
    /\ Len(ifaces) < Len(Merged)
    /\ phase = "collect"

\* Interface names differ pairwise, and in every interface so do the names of
\* its methods, of its properties and of its signals.
NamesUnique(ptrs, h) ==
    LET distinct(ms) == \A i, j \in DOMAIN ms : i # j => ms[i].Name # ms[j].Name
    IN  /\ NoTwoShareAName(ptrs, h)
        /\ \A n \in DOMAIN ptrs :
              /\ distinct(h[ptrs[n]].Methods)
              /\ distinct(h[ptrs[n]].Properties)
              /\ distinct(h[ptrs[n]].Signals)

\* Heap h with the methods, properties and signals of the interfaces of ptrs
\* in every order.
RECURSIVE MemberOrders(_, _)
MemberOrders(ptrs, h) ==
    IF ptrs = <<>> THEN {h}
    ELSE LET x == h[Head(ptrs)]
         IN  {[h2 EXCEPT ![Head(ptrs)] =
                    [x EXCEPT !.Methods = m, !.Properties = q, !.Signals = g]] :
                m \in Perms(x.Methods), q \in Perms(x.Properties), g \in Perms(x.Signals),
                h2 \in MemberOrders(Tail(ptrs), h)}

\* The same interfaces in every input order: the slice permuted, and the
\* methods, properties and signals of each interface permuted.
InputOrders(ptrs, h) ==
    {[ptrs |-> p, heap |-> h2] : p \in Perms(ptrs), h2 \in MemberOrders(ptrs, h)}

\* Print, called with the options and writer of the call made, on the same
\* interfaces in any input order, returns and writes what the call made did.
SameInAnyOrder ==
    \A io \in InputOrders(call.ptrs, call.heap) :
        \A r \in printerPrint(io.ptrs, io.heap, call) : r.out = out /\ r.ret = ret

\* C2 as stated: for every set of interfaces, any two input orders give the
\* same output.
C2_DeterminismForEverySet == Printed => SameInAnyOrder

\* C2 amended: for every set of interfaces whose names differ pairwise and whose
\* method, property and signal names differ pairwise within each interface,
\* any two input orders give byte-identical output.
C2_DeterminismUniqueNames ==
    (Printed /\ NamesUnique(call.ptrs, call.heap)) => SameInAnyOrder

\* C2 witness: Print wrote the text of two or more uniquely named interfaces
\* that it was given in an order other than the sorted one.
C2_Witness ==
    /\ Printed
    /\ ret = "nil"
    /\ NamesUnique(call.ptrs, call.heap)
    /\ Len(call.ptrs) >= 2
    /\ filtered # call.ptrs
    /\ heap # call.heap

\* C3: Print fails with "package name is not valid" exactly when the package
\* name is not an identifier of Go.
C3_InvalidConfigurationIffNotIdentifier ==
    Printed => ((ret = "package name is not valid") <=> ~IsGoIdent(call.pkgName))

\* C4 as stated: given zero interfaces Print fails with "no interfaces given";
\* given at least one and a valid package name it does not.
C4_EmptyInputForZeroInterfaces ==
    Printed =>
        /\ Len(call.ptrs) = 0 => ret = "no interfaces given"
        /\ (Len(call.ptrs) >= 1 /\ identRegexpMatch(call.pkgName))
              => ret # "no interfaces given"

\* C4 amended: given zero interfaces and a package name that passes the package
\* name check, Print fails with "no interfaces given" (the package name is
\* checked first: with a name that fails the check Print fails with "package
\* name is not valid" whatever the interfaces); given at least one interface it
\* never fails with "no interfaces given".
C4_EmptyInputAfterPackageCheck ==
    Printed =>
        /\ (Len(call.ptrs) = 0 /\ identRegexpMatch(call.pkgName))
              => ret = "no interfaces given"
        /\ ~identRegexpMatch(call.pkgName) => ret = "package name is not valid"
        /\ Len(call.ptrs) >= 1 => ret # "no interfaces given"

\* C4 witness: the -only filter of run() removed every interface of a list that
\* was not empty, and Print failed with "no interfaces given".
C4_Witness ==
    /\ Printed
    /\ ifaces # <<>>
    /\ call.ptrs = <<>>
    /\ ret = "no interfaces given"

\* C5: when Print fails with either argument error, a template execution error
\* or a parse error, the writer has received nothing; the writer receives
\* bytes only when the template ran and its text parsed.
C5_NoPartialOutputOnFailure ==
    Printed =>
        /\ ret \in {"package name is not valid", "no interfaces given",
                    "template error", "parse error"} => out = <<>>
        /\ out # <<>> => (rendered # <<>> /\ parseFile(rendered))

\* C5 witness: the template ran, its text did not parse, Print returned the
\* parse error and the writer has nothing.
C5_Witness ==
    /\ Printed
    /\ rendered # <<>>
    /\ ~parseFile(rendered)
    /\ ret = "parse error"
    /\ out = <<>>

\* The lines of kinds that declare, in the text written, a method of the
\* receiver type recv under the name name.
Declared(kinds, recv, name) ==
    {n \in DOMAIN out :
        /\ out[n].kind \in kinds
        /\ out[n].ids[1] = recv
        /\ out[n].ids[2] = name}

\* C6: the text Print writes never declares, on one interface type, a property
\* accessor and a method under the same name.
C6_NoAccessorCollidesWithMethod ==
    (Printed /\ ret = "nil") =>
        \A n \in DOMAIN out :
            out[n].kind \in {"getter", "setter"} =>
                Declared({"method"}, out[n].ids[1], out[n].ids[2]) = {}

\* C9: with gofmt disabled Print writes the template's text as it is, whether
\* or not the text parses; with gofmt enabled, text that does not parse makes
\* Print fail and text that parses is written reformatted.
C9_RawTextPassesThroughWithoutGofmt ==
    (Printed /\ rendered # <<>> /\ call.writer.ok) =>
        /\ ~call.gofmt => (ret = "nil" /\ out = rendered)
        /\ (call.gofmt /\ ~parseFile(rendered)) => (ret = "parse error" /\ out = <<>>)
        /\ (call.gofmt /\ parseFile(rendered)) => (ret = "nil" /\ out = formatNode(rendered))

IsPrefix(a, b) == Len(a) <= Len(b) /\ SubSeq(b, 1, Len(a)) = a

\* t holds the elements of s, each as often, in an order in which no name
\* comes before a smaller one; name[x] is the name of element x.
SortedReordering(s, t, name) ==
    /\ t \in Perms(s)
    /\ \A i, j \in DOMAIN t : i < j => ~LessStr(name[t[j]], name[t[i]])

NameOf(ms) == [x \in Range(ms) |-> x.Name]

\* Slice p1 and heap h1 are slice p0 and heap h0 with nothing added, removed or
\* rewritten: the slice and the member lists of its interfaces are reordered
\* by name, everything else is as it was.
ReorderedByName(p0, h0, p1, h1) ==
    LET ifaceName == [q \in Range(p0) |-> h0[q].Name]
    IN  /\ SortedReordering(p0, p1, ifaceName)
        /\ \A q \in DOMAIN h0 :
              IF q \in Range(p0)
              THEN /\ h1[q].Name = h0[q].Name
                   /\ h1[q].Annotations = h0[q].Annotations
                   /\ SortedReordering(h0[q].Methods, h1[q].Methods, NameOf(h0[q].Methods))
                   /\ SortedReordering(h0[q].Properties, h1[q].Properties, NameOf(h0[q].Properties))
                   /\ SortedReordering(h0[q].Signals, h1[q].Signals, NameOf(h0[q].Signals))
              ELSE h1[q] = h0[q]

---------------------------------------------------------------------------
(* argName as a function of its inputs.                                    *)

\* The bytes argument names are drawn from.
ArgBytes == {"g", "o", "T", "_", "1", "-"}

\* The longest argument name drawn.
MaxNameLen == 3

\* The largest argument position drawn.
MaxIndex == 1

\* The prefixes the callers of argName pass: "v", "in", "out".
RolePrefixes == {<<"v">>, <<"i", "n">>, <<"o", "u", "t">>}

Strings(bytes, n) == UNION {[1..k -> bytes] : k \in 0..n}

InitArg ==
    /\ heap = Objects
    /\ ifaces = <<>>
    /\ sources = <<>>
    /\ filtered = <<>>
    /\ phase = "collect"
    /\ call = NoCall
    /\ out = <<>>
    /\ ret = "pending"
    /\ rendered = <<>>
    /\ sig = NoSig
    /\ typ = NoTyp
    /\ \E name \in Strings(ArgBytes, MaxNameLen), prefix \in RolePrefixes,
          i \in 0..MaxIndex, export \in BOOLEAN :
            arg = [name |-> name, prefix |-> prefix, i |-> i, export |-> export,
                   result |-> <<>>, done |-> FALSE]

\* One call of p.argName(arg, prefix, i, export).
CallArgName ==
    /\ ~arg.done
    /\ arg' = [arg EXCEPT
                 !.result = argName([Name |-> arg.name], arg.prefix, arg.i, arg.export),
                 !.done = TRUE]
    /\ UNCHANGED <<heap, ifaces, sources, filtered, phase, call, out, ret, rendered, sig, typ>>

NextArg == CallArgName

SpecArg == InitArg /\ [][NextArg]_vars

\* C7: an empty name gives the role prefix followed by the position, and the
\* name argName returns is always an identifier of Go, never a reserved word.
C7_ArgNameIsLegalIdentifier ==
    arg.done =>
        /\ arg.name = <<>> => arg.result = arg.prefix \o Itoa(arg.i)
        /\ IsGoIdent(arg.result)

---------------------------------------------------------------------------
(* The LookupSignal function of the generated package.                     *)

\* The interfaces the package was generated for.
Generated == <<Objects[1], Objects[5]>>

SignalNames == {
    <<"n", ".", "b", ".", "s">>,
    <<"n", ".", "c", ".", "s">>,
    <<"n", ".", "c", ".", "t">>,
    <<"n", ".", "b", ".", "q">> }

\* The values a signal body carries: a dynamic type and a value, 0 the zero
\* value of the type.
Values == {[type |-> t, val |-> v] : t \in {TString, TInt32}, v \in 0..1}

\* The longest signal body drawn.
MaxBody == 2

\* How many anomalies the log takes before the run stops.
MaxLog == 2

\* The case clauses the template emits, in order: the signal name matched and
\* the declared arguments.
signalCases(ifs) ==
    Flat([n \in DOMAIN ifs |->
        [k \in DOMAIN ifs[n].Signals |->
            [key  |-> ifs[n].Name \o <<".">> \o ifs[n].Signals[k].Name,
             args |-> ifs[n].Signals[k].Args]]])

\* LookupSignal(signal) of the generated package. signal.Body[i] with i beyond
\* the body panics; a failed type assertion leaves the zero value and logs.
LookupSignal(ifs, signal) ==
    LET cases == signalCases(ifs)
        hits  == {c \in DOMAIN cases : cases[c].key = signal.Name}
    IN  IF hits = {}
        THEN [result |-> "nil", fields |-> <<>>, anomalies |-> <<>>, panic |-> FALSE]
        ELSE LET args   == cases[CHOOSE c \in hits : \A d \in hits : c <= d].args
                 reach  == Min(Len(args), Len(signal.Body))
                 ok(i)  == signal.Body[i].type = args[i].Type
                 bad(i) == ~ok(i)
                 misses == SelectSeq([i \in 1..reach |-> i], bad)
                 logged == [m \in DOMAIN misses |->
                              [field |-> argName(args[misses[m]], <<"v">>, misses[m] - 1, TRUE),
                               got   |-> signal.Body[misses[m]].type]]
             IN  IF Len(signal.Body) < Len(args)
                 THEN [result |-> "panic", fields |-> <<>>, anomalies |-> logged,
                       panic |-> TRUE]
                 ELSE [result |-> "signal",
                       fields |-> [i \in DOMAIN args |->
                                      IF ok(i) THEN signal.Body[i]
                                      ELSE [type |-> args[i].Type, val |-> 0]],
                       anomalies |-> logged, panic |-> FALSE]

\* A signal arrives and the program hands it to LookupSignal.
Dispatch(name, body) ==
    /\ ~sig.crashed
    /\ Len(sig.log) < MaxLog
    /\ LET r == LookupSignal(Generated, [Name |-> name, Body |-> body])
       IN  sig' = [name |-> name, body |-> body, result |-> r.result, fields |-> r.fields,
                   anomalies |-> r.anomalies, log |-> sig.log \o r.anomalies,
                   crashed |-> r.panic]
    /\ UNCHANGED <<heap, ifaces, sources, filtered, phase, call, out, ret, rendered, arg, typ>>

NextSignal == \E name \in SignalNames, body \in Strings(Values, MaxBody) : Dispatch(name, body)

SpecSignal == Init /\ [][NextSignal]_vars

\* The declared arguments of the signal last dispatched, <<>> if undeclared.
DeclaredArgs ==
    LET cases == signalCases(Generated)
        hits  == {c \in DOMAIN cases : cases[c].key = sig.name}
    IN  IF hits = {} THEN <<>> ELSE cases[CHOOSE c \in hits : TRUE].args

\* Field i of the body last dispatched has the declared type.
FieldMatches(i) == i <= Len(sig.body) /\ sig.body[i].type = DeclaredArgs[i].Type

\* C8: for a declared signal and a body that does not match its declared
\* signature, LookupSignal does not abort: it returns the typed signal, every
\* matching field holding the body's value and every other the zero value of
\* its declared type, with one anomaly logged for each field that does not match.
C8_MismatchedPayloadDoesNotAbort ==
    (sig.result # "none" /\ \E i \in DOMAIN DeclaredArgs : ~FieldMatches(i)) =>
        /\ ~sig.crashed
        /\ sig.result = "signal"
        /\ Len(sig.fields) = Len(DeclaredArgs)
        /\ \A i \in DOMAIN DeclaredArgs :
              sig.fields[i] = IF FieldMatches(i) THEN sig.body[i]
                              ELSE [type |-> DeclaredArgs[i].Type, val |-> 0]
        /\ Len(sig.anomalies) = Cardinality({i \in DOMAIN DeclaredArgs : ~FieldMatches(i)})

---------------------------------------------------------------------------
(* ifaceType as a function of its inputs.                                  *)

\* The bytes interface names are drawn from.
IfaceBytes == {"n", "b", ".", "_"}

\* The longest interface name drawn.
MaxIfaceLen == 3

\* The name TestIfaceName derives a type for.
CamelCaseName ==
    <<"c","a","m","e","l","_","c","a","s","e","_","n","a","m","e">>

IfaceNames == Strings(IfaceBytes, MaxIfaceLen) \cup {CamelCaseName}

\* The prefixes WithPrefixes may be given; []string allows the empty string.
IfacePrefixes == {<<>>, <<"n">>, <<"n", ".">>, <<"b">>, <<"n", ".", "b">>}

\* p.prefixes: no prefix, one, or two.
PrefixLists ==
    {<<>>} \cup {<<x>> : x \in IfacePrefixes}
           \cup {<<x, y>> : x \in IfacePrefixes, y \in IfacePrefixes}

InitIface ==
    /\ heap = Objects
    /\ ifaces = <<>>
    /\ sources = <<>>
    /\ filtered = <<>>
    /\ phase = "collect"
    /\ call = NoCall
    /\ out = <<>>
    /\ ret = "pending"
    /\ rendered = <<>>
    /\ arg = NoArg
    /\ sig = NoSig
    /\ \E name \in IfaceNames, prefixes \in PrefixLists :
            typ = [name |-> name, prefixes |-> prefixes, result |-> <<>>,
                   done |-> FALSE, crashed |-> FALSE]

\* One call of p.ifaceType(iface); an index or a slice out of range panics.
CallIfaceType ==
    /\ ~typ.done
    /\ LET iface == [Name |-> typ.name]
       IN  typ' = IF ifaceTypePanics(iface, typ.prefixes)
                  THEN [typ EXCEPT !.crashed = TRUE, !.done = TRUE]
                  ELSE [typ EXCEPT !.result = ifaceType(iface, typ.prefixes), !.done = TRUE]
    /\ UNCHANGED <<heap, ifaces, sources, filtered, phase, call, out, ret, rendered, arg, sig>>

NextIface == CallIfaceType

SpecIface == InitIface /\ [][NextIface]_vars

\* A prefix without its trailing dot, as the specification's prefix list reads.
TrimDot(x) == IF x # <<>> /\ x[Len(x)] = "." THEN SubSeq(x, 1, Len(x) - 1) ELSE x

\* A prefix matches a dot-delimited name when the name is the prefix or goes
\* on with a dot after it.
PrefixMatches(name, x) ==
    LET q == TrimDot(x)
    IN  /\ q # <<>>
        /\ Len(q) <= Len(name)
        /\ SubSeq(name, 1, Len(q)) = q
        /\ Len(name) = Len(q) \/ name[Len(q) + 1] = "."

\* The name with the first matching prefix removed, or whole when none matches.
WithoutFirstMatchingPrefix(name, prefixes) ==
    LET hits == {k \in DOMAIN prefixes : PrefixMatches(name, prefixes[k])}
    IN  IF hits = {} THEN name
        ELSE LET k == CHOOSE h \in hits : \A j \in hits : h <= j
             IN  SubSeq(name, Len(TrimDot(prefixes[k])) + 2, Len(name))

\* The first character in upper case, then every '.' or '_' before a letter
\* or digit rewritten to '_' and that character in upper case.
CamelCased(s) ==
    ifaceReplace([i \in DOMAIN s |-> IF i = 1 THEN ToUpperC(s[i]) ELSE s[i]])

CamelCaseType ==
    <<"C","a","m","e","l","_","C","a","s","e","_","N","a","m","e">>

\* C11: ifaceType never fails, whatever the interface name and the prefix
\* list: it returns the name without the first matching prefix, camel-cased,
\* and with no prefixes "camel_case_name" gives "Camel_Case_Name".
C11_IfaceTypeNeverFails ==
    typ.done =>
        /\ ~typ.crashed
        /\ typ.result = CamelCased(WithoutFirstMatchingPrefix(typ.name, typ.prefixes))
        /\ (typ.name = CamelCaseName /\ typ.prefixes = <<>>) => typ.result = CamelCaseType

=============================================================================
